---------------------------- MODULE Spec2Model ----------------------------
(***************************************************************************)
(* Model of lceka/stock_analysis:                                          *)
(*   - FinancialDataFetcher (src/data_fetch.py): _make_api_request with    *)
(*     its retry loop, the seven getters, get_stock_data, get_stocks_data; *)
(*   - StockAnalyzer (src/analysis.py): _calculate_metrics,                *)
(*     _calculate_scores, analyze, get_top_stocks.                         *)
(*                                                                         *)
(* JSON values are tagged records, so that null, numbers, strings, lists   *)
(* and objects can be told apart the way Python tells them apart:          *)
(*   Null, Num(n), Str(s), List(<<...>>), Obj([field |-> value]).          *)
(* A Python dict that the program itself builds (an aggregate record, a    *)
(* results entry) is a TLA+ function from its keys.                        *)
(***************************************************************************)
EXTENDS Integers, Sequences, FiniteSets, TLC

VARIABLES
    \* ---- FinancialDataFetcher --------------------------------------
    symbols,        \* argument of get_stocks_data: the list of symbols
    max_retries,    \* self.max_retries
    known,          \* the provider: symbols it has data for ([] for the others)
    pc,             \* position of the single control thread in the fetcher
    idx,            \* get_stocks_data: position of `symbol` in `symbols` (1-based)
    sub,            \* get_stock_data: which of the seven getters is running
    attempt,        \* _make_api_request: loop variable `attempt`
    got,            \* get_stock_data: the sub-records assigned so far
    stocks_keys,    \* stocks_data: keys in insertion order
    stocks_data,    \* stocks_data: key -> aggregate record
    inflight,       \* number of HTTP attempts sent and not yet answered
    tries,          \* attempts sent by the running logical request
    sleeps,         \* retry delays slept by the running logical request
    ended,          \* how the last finished logical request ended
    issued,         \* endpoints requested for the current symbol, in order
    started,        \* symbols whose get_stock_data has been entered, in order
    response,       \* _make_api_request: what requests.get last came back with
    paced,          \* pacing delays get_stocks_data has slept
    \* ---- StockAnalyzer ---------------------------------------------
    apc,            \* position of the control thread in analyze_stocks
    mi,             \* _calculate_metrics: position in stocks_data.items()
    si,             \* _calculate_scores: position in results.items()
    result_keys,    \* self.results: keys in insertion order
    results,        \* self.results: key -> metrics entry
    top_n,          \* argument of get_top_stocks
    top             \* rows (symbols) of the frame get_top_stocks returned

fetchVars == <<symbols, max_retries, known, pc, idx, sub, attempt, got,
               inflight, tries, sleeps, ended, issued, started, response,
               paced>>
dataVars == <<stocks_keys, stocks_data>>
anaVars == <<apc, mi, si, result_keys, results, top_n, top>>
vars == <<fetchVars, dataVars, anaVars>>

---------------------------------------------------------------------------
\* Bounds of the model.

\* Longest list of symbols handed to get_stocks_data.
MaxSymbols == 2
\* Largest configured max_retries (the default is 3); the smallest is -1.
MaxRetries == 3

Symbols == {"AAA", "BBB"}
RetryConfigs == (0 - 1)..MaxRetries
FailureKinds == {"ConnectionError", "HTTPError"}

---------------------------------------------------------------------------
\* JSON values.

Null == [k |-> "null"]
Num(n) == [k |-> "num", n |-> n]
Str(s) == [k |-> "str", s |-> s]
List(items) == [k |-> "list", items |-> items]
Obj(fields) == [k |-> "obj", fields |-> fields]
EmptyObj == Obj(<<>>)
EmptyList == List(<<>>)

\* Python truthiness of a JSON value (`if data`, `data.get(..) if data.get(..)`).
Truthy(v) ==
    CASE v.k = "null" -> FALSE
      [] v.k = "list" -> Len(v.items) > 0
      [] v.k = "obj"  -> DOMAIN v.fields # {}
      [] v.k = "num"  -> v.n # 0
      [] v.k = "str"  -> v.s # ""

---------------------------------------------------------------------------
\* FinancialDataFetcher

\* A slip: the quote is fetched before the financial growth.
EndpointsQuoteBeforeGrowth ==
    <<"profile", "income-statement", "balance-sheet-statement",
      "key-metrics", "ratios", "quote", "financial-growth">>

\* The seven getters of get_stock_data, in call order, by endpoint.
Endpoints == <<"profile", "income-statement", "balance-sheet-statement",
               "key-metrics", "ratios", "financial-growth", "quote">>
NumSub == Len(Endpoints)

\* Keys of the aggregate record, in the order of the getters.
SubKeys == <<"company_profile", "income_statements", "balance_sheets",
             "key_metrics", "ratios", "growth", "quote">>

\* What response.json() yields for symbol s: the provider answers with a
\* one-element list for a symbol it knows and with [] for any other.
ProviderBody(s) ==
    IF s \in known THEN List(<<Obj([symbol |-> Str(s)])>>) ELSE EmptyList

\* get_company_profile / get_stock_quote: `data[0] if data else {}`.
Unwrap(data) == IF Truthy(data) THEN data.items[1] ELSE EmptyObj

\* What getter number k returns for the value _make_api_request returned.
GetterResult(k, data) == IF k \in {1, NumSub} THEN Unwrap(data) ELSE data

\* get_stock_data, lines 244-253: the aggregate record.
FullRecord(s, subs) ==
    [key \in {"symbol"} \cup {SubKeys[k] : k \in 1..NumSub} |->
        IF key = "symbol" THEN Str(s)
        ELSE subs[CHOOSE k \in 1..NumSub : SubKeys[k] = key]]

\* A plausible slip: the except branch keeps what was fetched before the error.
ErrorRecordKeepsFetched(s, msg) ==
    [key \in {"symbol", "error"} \cup {SubKeys[k] : k \in 1..Len(got)} |->
        IF key = "symbol" THEN Str(s)
        ELSE IF key = "error" THEN Str(msg)
        ELSE got[CHOOSE k \in 1..Len(got) : SubKeys[k] = key]]

\* get_stock_data, lines 257-262: the record of a failed symbol.
ErrorRecord(s, msg) == [symbol |-> Str(s), error |-> Str(msg)]

\* stocks_data[symbol] = stock_data on a dict that keeps insertion order.
PutKeys(keys, s) ==
    IF \E j \in 1..Len(keys) : keys[j] = s THEN keys ELSE Append(keys, s)
PutData(data, s, rec) ==
    [key \in DOMAIN data \cup {s} |-> IF key = s THEN rec ELSE data[key]]

\* A plausible slip: the batch loop stops at the first failed symbol.
NextIndexStopOnError(i, rec) ==
    IF "error" \in DOMAIN rec THEN Len(symbols) + 1 ELSE i + 1

\* get_stocks_data, lines 276-281: the loop goes on to the next symbol
\* whatever get_stock_data returned.
NextIndex(i, rec) == i + 1

\* No call of requests.get has been made yet.
NoResponse == [status |-> "none", body |-> Null]

\* A slip: an empty body is not handed back.
JsonBodyUnlessEmpty(body) == IF Truthy(body) THEN body ELSE Null

\* _make_api_request line 60: return response.json(), whatever the body is.
JsonBody(body) == body

\* A slip: the delay is slept after the last attempt too.
MoreAttemptsOffByOne(a) == a < max_retries

\* _make_api_request line 65: attempt < self.max_retries - 1.
MoreAttempts(a) == a < max_retries - 1

NoRequest == [outcome |-> "none", tries |-> 0, sleeps |-> 0, value |-> Null,
              sub |-> 0, idx |-> 0]

Ended(outcome, value) ==
    [outcome |-> outcome, tries |-> tries, sleeps |-> sleeps, value |-> value,
     sub |-> sub, idx |-> idx]

\* Entering _make_api_request for getter k of the current symbol.
BeginRequest(k) ==
    /\ sub' = k
    /\ attempt' = 0
    /\ tries' = 0
    /\ sleeps' = 0
    /\ issued' = IF k = 1 THEN <<Endpoints[1]>> ELSE Append(issued, Endpoints[k])
    /\ pc' = "attempt"

\* get_stock_data returns `rec`; get_stocks_data stores it (line 278) and
\* reaches the pacing delay (line 281).
StoreRecord(rec) ==
    /\ stocks_keys' = PutKeys(stocks_keys, symbols[idx])
    /\ stocks_data' = PutData(stocks_data, symbols[idx], rec)
    /\ pc' = "pace"
    /\ UNCHANGED <<sub, attempt, tries, sleeps, issued>>

\* _make_api_request returned `data` to getter `sub`: the getter's result is
\* assigned and get_stock_data goes on to the next getter or builds the record.
Deliver(data) ==
    /\ got' = Append(got, GetterResult(sub, data))
    /\ IF sub < NumSub
         THEN /\ BeginRequest(sub + 1)
              /\ UNCHANGED dataVars
         ELSE StoreRecord(FullRecord(symbols[idx], got'))

\* get_stocks_data line 276-277 and get_stock_data line 235: the loop takes the
\* next symbol and its first getter enters _make_api_request.
StartSymbol ==
    /\ pc = "loop"
    /\ idx <= Len(symbols)
    /\ got' = <<>>
    /\ started' = Append(started, symbols[idx])
    /\ BeginRequest(1)
    /\ UNCHANGED <<symbols, max_retries, known, idx, inflight, ended, response,
                   paced>>
    /\ UNCHANGED <<dataVars, anaVars>>

\* get_stocks_data line 283: the loop is over, the mapping is returned.
ReturnStocksData ==
    /\ pc = "loop"
    /\ idx > Len(symbols)
    /\ pc' = "done"
    /\ UNCHANGED <<symbols, max_retries, known, idx, sub, attempt, got,
                   inflight, tries, sleeps, ended, issued, started, response,
                   paced>>
    /\ UNCHANGED <<dataVars, anaVars>>

\* _make_api_request line 55-57: one more iteration of the loop, requests.get
\* is called.
SendAttempt ==
    /\ pc = "attempt"
    /\ attempt < max_retries
    /\ inflight' = inflight + 1
    /\ tries' = tries + 1
    /\ pc' = "await"
    /\ response' = [status |-> "pending", body |-> Null]
    /\ UNCHANGED <<symbols, max_retries, known, idx, sub, attempt, got,
                   sleeps, ended, issued, started, paced>>
    /\ UNCHANGED <<dataVars, anaVars>>

\* _make_api_request line 55 with range(max_retries) empty: the loop body never
\* runs and the function falls off its end, returning None.
LoopNotEntered ==
    /\ pc = "attempt"
    /\ attempt >= max_retries
    /\ ended' = Ended("fell_through", Null)
    /\ Deliver(Null)
    /\ UNCHANGED <<symbols, max_retries, known, idx, inflight, started, response,
                   paced>>
    /\ UNCHANGED anaVars

\* _make_api_request lines 57-60: the response arrives with a good status and
\* its JSON body is returned.
ResponseOk ==
    /\ pc = "await"
    /\ inflight' = inflight - 1
    /\ response' = [status |-> "ok", body |-> ProviderBody(symbols[idx])]
    /\ ended' = Ended("returned", JsonBody(ProviderBody(symbols[idx])))
    /\ Deliver(JsonBody(ProviderBody(symbols[idx])))
    /\ UNCHANGED <<symbols, max_retries, known, idx, started, paced>>
    /\ UNCHANGED anaVars

\* _make_api_request lines 62-66: the attempt failed and it was not the last
\* one; the retry delay follows.
ResponseFailRetry ==
    /\ pc = "await"
    /\ MoreAttempts(attempt)
    /\ inflight' = inflight - 1
    /\ response' = [status |-> "failed", body |-> Null]
    /\ pc' = "retry_sleep"
    /\ UNCHANGED <<symbols, max_retries, known, idx, sub, attempt, got,
                   tries, sleeps, ended, issued, started, paced>>
    /\ UNCHANGED <<dataVars, anaVars>>

\* _make_api_request lines 62-69 and get_stock_data lines 257-262: the last
\* attempt failed, the terminal error is raised, get_stock_data catches it
\* and returns the error record.
ResponseFailRaise ==
    /\ pc = "await"
    /\ ~MoreAttempts(attempt)
    /\ \E kind \in FailureKinds :
          /\ ended' = Ended("raised", Str(kind))
          /\ StoreRecord(ErrorRecord(symbols[idx], kind))
    /\ inflight' = inflight - 1
    /\ response' = [status |-> "failed", body |-> Null]
    /\ UNCHANGED <<symbols, max_retries, known, idx, got, started, paced>>
    /\ UNCHANGED anaVars

\* _make_api_request line 66: time.sleep(self.retry_delay), then the next
\* iteration of the loop.
RetrySleep ==
    /\ pc = "retry_sleep"
    /\ sleeps' = sleeps + 1
    /\ attempt' = attempt + 1
    /\ pc' = "attempt"
    /\ UNCHANGED <<symbols, max_retries, known, idx, sub, got, inflight,
                   tries, ended, issued, started, response, paced>>
    /\ UNCHANGED <<dataVars, anaVars>>

\* get_stocks_data line 281: time.sleep(0.5), then the next symbol.
PaceSleep ==
    /\ pc = "pace"
    /\ idx' = NextIndex(idx, stocks_data[symbols[idx]])
    /\ pc' = "loop"
    /\ paced' = paced + 1
    /\ UNCHANGED <<symbols, max_retries, known, sub, attempt, got, inflight,
                   tries, sleeps, ended, issued, started, response>>
    /\ UNCHANGED <<dataVars, anaVars>>

\* The analyzer's variables while only the fetcher runs.
AnalyzerIdle ==
    /\ apc = "idle"
    /\ mi = 1
    /\ si = 1
    /\ result_keys = <<>>
    /\ results = <<>>
    /\ top_n = 0
    /\ top = <<>>

SymbolLists ==
    UNION {[1..n -> Symbols] : n \in 0..MaxSymbols}

\* FinancialDataFetcher(api_key, max_retries) and the call of
\* get_stocks_data(symbols), line 274.
InitFetch ==
    /\ symbols \in SymbolLists
    /\ max_retries \in RetryConfigs
    /\ known \in SUBSET Symbols
    /\ pc = "loop"
    /\ idx = 1
    /\ sub = 0
    /\ attempt = 0
    /\ got = <<>>
    /\ stocks_keys = <<>>
    /\ stocks_data = <<>>
    /\ inflight = 0
    /\ tries = 0
    /\ sleeps = 0
    /\ ended = NoRequest
    /\ issued = <<>>
    /\ started = <<>>
    /\ response = NoResponse
    /\ paced = 0
    /\ AnalyzerIdle

NextFetch ==
    \/ StartSymbol
    \/ ReturnStocksData
    \/ SendAttempt
    \/ LoopNotEntered
    \/ ResponseOk
    \/ ResponseFailRetry
    \/ ResponseFailRaise
    \/ RetrySleep
    \/ PaceSleep

SpecFetch == InitFetch /\ [][NextFetch]_vars

\* Every step of the fetcher is a blocking call that returns (a response or a
\* failure arrives, a sleep ends), so the single thread keeps going.
FairSpecFetch == SpecFetch /\ WF_vars(NextFetch)


---------------------------------------------------------------------------
\* StockAnalyzer: numbers.
\*
\* Every number is an integer count of 1/6000: one hundredth (Cent) is 60, so
\* that the mean of up to five values given in hundredths is exact, and 1 is
\* 100 hundredths. Rounding of binary floating point is not modelled.

Cent == 3 * 4 * 5
One == 100 * Cent

\* x * 100 on a count of units.
Times100(n) == n * 100

---------------------------------------------------------------------------
\* StockAnalyzer: _calculate_metrics

\* dict.get(key, default) on an aggregate record.
DataGet(data, key, default) ==
    IF key \in DOMAIN data THEN data[key] ELSE default

\* dict.get(key, default) on a JSON object.
ObjGet(o, key, default) ==
    IF key \in DOMAIN o.fields THEN o.fields[key] ELSE default

\* A slip: the error marker of a record is never looked at.
HasErrorNever(data) == FALSE

\* Line 40: 'error' in data.
HasError(data) == "error" \in DOMAIN data

\* Lines 47-50: data.get(key, [{}])[0] if data.get(key) else {}.
FirstOrEmpty(data, key) ==
    IF Truthy(DataGet(data, key, Null))
        THEN DataGet(data, key, List(<<EmptyObj>>)).items[1]
        ELSE EmptyObj

\* [0] raises on a truthy value that is no list.
FirstRaises(data, key) ==
    /\ Truthy(DataGet(data, key, Null))
    /\ DataGet(data, key, Null).k # "list"

\* Line 51: data.get('growth', []) if data.get('growth') else [].
GrowthData(data) ==
    IF Truthy(DataGet(data, "growth", Null))
        THEN DataGet(data, "growth", EmptyList)
        ELSE EmptyList

RECURSIVE SumNums(_)
SumNums(seq) == IF seq = <<>> THEN 0 ELSE Head(seq).n + SumNums(Tail(seq))

\* np.mean of a non-empty list of numbers.
Mean(seq) == SumNums(seq) \div Len(seq)

\* Line 77: the revenueGrowth of the first five entries, 0 where it is absent.
GrowthRates(gd) ==
    [j \in 1..5 |-> ObjGet(gd.items[j], "revenueGrowth", Num(0))]

\* A slip: a None rate is averaged as 0 instead of being dropped.
ValidRatesNullAsZero(gd) ==
    [j \in 1..5 |-> IF GrowthRates(gd)[j].k = "null" THEN Num(0)
                                                     ELSE GrowthRates(gd)[j]]

\* Line 78: the rates that are not None.
ValidRates(gd) == SelectSeq(GrowthRates(gd), LAMBDA r : r.k # "null")

\* Lines 74-79.
RevenueGrowth5y(gd) ==
    IF Len(gd.items) >= 5
        THEN IF ValidRates(gd) # <<>>
                THEN Num(Times100(Mean(ValidRates(gd))))
                ELSE Num(0)
        ELSE Num(0)

\* Lines 75-79 raise when growth is no list, when one of the first five
\* entries is no object, or when a rate is neither a number nor None.
GrowthRaises(data) ==
    LET gd == GrowthData(data) IN
    \/ gd.k # "list"
    \/ /\ Len(gd.items) >= 5
       /\ \/ \E j \in 1..5 : gd.items[j].k # "obj"
          \/ \E j \in 1..5 :
                ObjGet(gd.items[j], "revenueGrowth", Num(0)).k \notin {"num", "null"}

\* Lines 68, 82, 85: ratios.get(field, 0) * 100 raises on None.
PercentRaises(ratios, field) == ObjGet(ratios, field, Num(0)).k # "num"
Percent(ratios, field) == Num(Times100(ObjGet(ratios, field, Num(0)).n))

\* Lines 46-101 raise (and line 103 catches) exactly when this holds.
DeriveRaises(data) ==
    \/ DataGet(data, "company_profile", EmptyObj).k # "obj"
    \/ DataGet(data, "quote", EmptyObj).k # "obj"
    \/ \E key \in {"income_statements", "balance_sheets", "key_metrics", "ratios"} :
          FirstRaises(data, key)
    \/ FirstOrEmpty(data, "income_statements").k # "obj"
    \/ FirstOrEmpty(data, "ratios").k # "obj"
    \/ \E field \in {"dividendYield", "returnOnEquity", "debtRatio"} :
          PercentRaises(FirstOrEmpty(data, "ratios"), field)
    \/ GrowthRaises(data)

MetricKeys == {"name", "sector", "price", "pe_ratio", "ps_ratio", "pb_ratio",
               "dividend_yield", "eps", "revenue_growth_5y", "roe",
               "debt_ratio", "score"}
NumericKeys == MetricKeys \ {"name", "sector"}

\* Lines 46-101: the entry stored in self.results[symbol].
MetricsEntry(s, data) ==
    LET profile == DataGet(data, "company_profile", EmptyObj)
        income == FirstOrEmpty(data, "income_statements")
        ratios == FirstOrEmpty(data, "ratios")
        quote == DataGet(data, "quote", EmptyObj)
    IN  [name |-> ObjGet(profile, "companyName", Str(s)),
         sector |-> ObjGet(profile, "sector", Str("N/A")),
         price |-> ObjGet(quote, "price", Num(0)),
         pe_ratio |-> ObjGet(ratios, "priceEarningsRatio", Num(0)),
         ps_ratio |-> ObjGet(ratios, "priceToSalesRatio", Num(0)),
         pb_ratio |-> ObjGet(ratios, "priceToBookRatio", Num(0)),
         dividend_yield |-> Percent(ratios, "dividendYield"),
         eps |-> ObjGet(income, "eps", Num(0)),
         revenue_growth_5y |-> RevenueGrowth5y(GrowthData(data)),
         roe |-> Percent(ratios, "returnOnEquity"),
         debt_ratio |-> Percent(ratios, "debtRatio"),
         score |-> Num(0)]

---------------------------------------------------------------------------
\* StockAnalyzer: _calculate_scores

\* Line 115: None > 0 (or a string > 0) raises TypeError; the other three
\* metrics compared are numbers whenever the entry exists.
ScoreRaises(m) == m.pe_ratio.k # "num"

\* A slip: P/E of exactly 15 still earns the points.
ScoreOfPeInclusive(m) ==
    (IF m.pe_ratio.n > 0 /\ m.pe_ratio.n <= 15 * One THEN 3 ELSE 0)
    + (IF m.dividend_yield.n > 3 * One THEN 2 ELSE 0)
    + (IF m.revenue_growth_5y.n > 10 * One THEN 3 ELSE 0)
    + (IF m.debt_ratio.n < 40 * One THEN 2 ELSE 0)

\* Lines 112-128.
ScoreOf(m) ==
    LET s0 == 0
        s1 == IF m.pe_ratio.n > 0 /\ m.pe_ratio.n < 15 * One THEN s0 + 3 ELSE s0
        s2 == IF m.dividend_yield.n > 3 * One THEN s1 + 2 ELSE s1
        s3 == IF m.revenue_growth_5y.n > 10 * One THEN s2 + 3 ELSE s2
        s4 == IF m.debt_ratio.n < 40 * One THEN s3 + 2 ELSE s3
    IN  s4

\* Line 131: self.results[symbol]['score'] = score.
WithScore(m, score) == [m EXCEPT !.score = Num(score)]

---------------------------------------------------------------------------
\* StockAnalyzer: get_top_stocks

Min(a, b) == IF a < b THEN a ELSE b
Max(a, b) == IF a > b THEN a ELSE b

\* Position of symbol s in a sequence of distinct symbols.
IndexOf(seq, s) == CHOOSE j \in 1..Len(seq) : seq[j] = s

RowOrders(seq) ==
    {p \in [1..Len(seq) -> {seq[j] : j \in 1..Len(seq)}] :
        \A a, b \in 1..Len(seq) : a # b => p[a] # p[b]}

\* Line 158: df.sort_values(by='score', ascending=False). The default kind is
\* 'quicksort', which does not keep the order of rows with equal keys: every
\* order of the rows that is descending by score is a possible result.
SortValues(keys, res) ==
    {p \in RowOrders(keys) :
        \A a \in 1..(Len(keys) - 1) : res[p[a]].score.n >= res[p[a + 1]].score.n}

\* Line 161: df.head(n) is the first n rows, and for a negative n all rows
\* but the last |n|.
DfHead(rows, n) ==
    IF n >= 0 THEN SubSeq(rows, 1, Min(n, Len(rows)))
    ELSE SubSeq(rows, 1, Max(Len(rows) + n, 0))

---------------------------------------------------------------------------
\* StockAnalyzer: the steps of analyze_stocks

\* self.results[symbol] = entry on a dict that keeps insertion order.
PutResult(s, entry) ==
    /\ result_keys' = PutKeys(result_keys, s)
    /\ results' = PutData(results, s, entry)

\* Lines 36-42: the record carries an error, the symbol is skipped.
SkipFetchError ==
    /\ apc = "metrics"
    /\ mi <= Len(stocks_keys)
    /\ HasError(stocks_data[stocks_keys[mi]])
    /\ mi' = mi + 1
    /\ UNCHANGED <<apc, si, result_keys, results, top_n, top>>
    /\ UNCHANGED <<fetchVars, dataVars>>

\* Lines 44-105 with an exception raised in the try block: logged, skipped.
SkipDerivationError ==
    /\ apc = "metrics"
    /\ mi <= Len(stocks_keys)
    /\ ~HasError(stocks_data[stocks_keys[mi]])
    /\ DeriveRaises(stocks_data[stocks_keys[mi]])
    /\ mi' = mi + 1
    /\ UNCHANGED <<apc, si, result_keys, results, top_n, top>>
    /\ UNCHANGED <<fetchVars, dataVars>>

\* Lines 44-101: the entry of the symbol is stored.
StoreMetrics ==
    /\ apc = "metrics"
    /\ mi <= Len(stocks_keys)
    /\ ~HasError(stocks_data[stocks_keys[mi]])
    /\ ~DeriveRaises(stocks_data[stocks_keys[mi]])
    /\ PutResult(stocks_keys[mi],
                 MetricsEntry(stocks_keys[mi], stocks_data[stocks_keys[mi]]))
    /\ mi' = mi + 1
    /\ UNCHANGED <<apc, si, top_n, top>>
    /\ UNCHANGED <<fetchVars, dataVars>>

\* analyze line 140-141: _calculate_metrics returns, _calculate_scores starts.
MetricsDone ==
    /\ apc = "metrics"
    /\ mi > Len(stocks_keys)
    /\ apc' = "scores"
    /\ UNCHANGED <<mi, si, result_keys, results, top_n, top>>
    /\ UNCHANGED <<fetchVars, dataVars>>

\* Lines 111-131: one entry is scored.
ScoreEntry ==
    /\ apc = "scores"
    /\ si <= Len(result_keys)
    /\ ~ScoreRaises(results[result_keys[si]])
    /\ results' = [results EXCEPT ![result_keys[si]] =
                      WithScore(@, ScoreOf(results[result_keys[si]]))]
    /\ si' = si + 1
    /\ UNCHANGED <<apc, mi, result_keys, top_n, top>>
    /\ UNCHANGED <<fetchVars, dataVars>>

\* Line 115 raises TypeError; nothing in _calculate_scores, analyze or
\* analyze_stocks catches it.
ScoreRaise ==
    /\ apc = "scores"
    /\ si <= Len(result_keys)
    /\ ScoreRaises(results[result_keys[si]])
    /\ apc' = "raised"
    /\ UNCHANGED <<mi, si, result_keys, results, top_n, top>>
    /\ UNCHANGED <<fetchVars, dataVars>>

\* analyze line 142: the results are returned.
AnalyzeReturn ==
    /\ apc = "scores"
    /\ si > Len(result_keys)
    /\ apc' = "analyzed"
    /\ UNCHANGED <<mi, si, result_keys, results, top_n, top>>
    /\ UNCHANGED <<fetchVars, dataVars>>

\* get_top_stocks(n), lines 155-161, on results that are not empty.
GetTopStocks(n) ==
    /\ apc = "analyzed"
    /\ result_keys # <<>>
    /\ top_n' = n
    /\ \E rows \in SortValues(result_keys, results) : top' = DfHead(rows, n)
    /\ apc' = "top_done"
    /\ UNCHANGED <<mi, si, result_keys, results>>
    /\ UNCHANGED <<fetchVars, dataVars>>

\* get_top_stocks(n) on empty results: the frame built at line 155 has no
\* column at all, and sort_values(by='score') at line 158 raises KeyError.
GetTopStocksKeyError(n) ==
    /\ apc = "analyzed"
    /\ result_keys = <<>>
    /\ top_n' = n
    /\ apc' = "top_raised"
    /\ UNCHANGED <<mi, si, result_keys, results, top>>
    /\ UNCHANGED <<fetchVars, dataVars>>

---------------------------------------------------------------------------
\* StockAnalyzer: the batches analysed.

\* Largest batch handed to the analyzer.
MaxBatch == 2
\* Largest top_n asked of get_top_stocks; the smallest is -2.
MaxTopN == 3

TopNs == (0 - 2)..MaxTopN
BatchSymbols == <<"AAA", "BBB", "CCC">>

\* A JSON object with the fields of f that are not Absent.
Absent == [k |-> "absent"]
MkObj(f) == Obj([key \in {x \in DOMAIN f : f[x] # Absent} |-> f[key]])

\* h hundredths.
Frac(h) == Num(h * Cent)

Ratios(pe, ps, dy, debt) ==
    List(<<MkObj([priceEarningsRatio |-> pe, priceToSalesRatio |-> ps,
                  priceToBookRatio |-> Absent, dividendYield |-> dy,
                  returnOnEquity |-> Absent, debtRatio |-> debt])>>)

G(v) == MkObj([revenueGrowth |-> v])

\* An aggregate record less its symbol.
Fetched(profile, income, ratios, growth, quote) ==
    [company_profile |-> profile,
     income_statements |-> income, balance_sheets |-> EmptyList,
     key_metrics |-> EmptyList, ratios |-> ratios, growth |-> growth,
     quote |-> quote]
Failed == [error |-> Str("HTTPError")]

\* The record of symbol s with the given content.
RecordOf(s, content) ==
    [key \in DOMAIN content \cup {"symbol"} |->
        IF key = "symbol" THEN Str(s) ELSE content[key]]

Acme == Obj([companyName |-> Str("Acme"), sector |-> Str("Tech")])
Eps(v) == List(<<Obj([eps |-> v])>>)
Price(v) == Obj([price |-> v])

\* profile, income statements and quote, varied together.
Contexts ==
    {<<EmptyObj, EmptyList, EmptyObj>>,
     <<Acme, Eps(Num(5 * One)), Price(Num(100 * One))>>,
     <<Acme, Eps(Null), Price(Null)>>,
     <<Null, Null, EmptyObj>>}

PeValues == {Absent, Null, Num(0 - 2 * One), Num(0), Num(12 * One),
             Num(15 * One), Num(20 * One)}
PsValues == {Absent, Null, Num(2 * One)}
YieldValues == {Absent, Null, Frac(3), Frac(4)}
DebtValues == {Absent, Null, Frac(30), Frac(40)}

RatiosValues ==
    {Null, EmptyList}
    \cup {Ratios(pe, ps, dy, debt) :
            pe \in PeValues, ps \in PsValues, dy \in YieldValues, debt \in DebtValues}

GrowthValues ==
    {Null,
     EmptyList,
     List(<<G(Frac(12)), G(Frac(12)), G(Frac(12)), G(Frac(12))>>),
     List(<<G(Frac(12)), G(Frac(12)), G(Frac(12)), G(Frac(12)), G(Frac(12))>>),
     List(<<G(Frac(10)), G(Frac(10)), G(Frac(10)), G(Frac(10)), G(Frac(10))>>),
     List(<<G(Frac(10)), G(Frac(20)), G(Null), G(Frac(5)), G(Frac(5))>>),
     List(<<G(Frac(12)), G(Null), G(Null), G(Null), G(Absent)>>),
     List(<<G(Null), G(Null), G(Null), G(Null), G(Null)>>),
     List(<<G(Frac(10)), G(Frac(10)), G(Frac(10)), G(Frac(10)), G(Frac(10)),
            G(Frac(90))>>)}

\* The records a batch of one symbol is drawn from.
RichRecords ==
    {Failed}
    \cup {Fetched(c[1], c[2], r, g, c[3]) :
            c \in Contexts, r \in RatiosValues, g \in GrowthValues}

\* The records a batch of several symbols is drawn from: a failed fetch, a
\* symbol the provider has nothing for, the best case, a middling case, a
\* null P/E and a null dividend yield.
BatchRecords ==
    {Failed,
     Fetched(EmptyObj, EmptyList, EmptyList, EmptyList, EmptyObj),
     Fetched(Acme, Eps(Num(5 * One)),
            Ratios(Num(12 * One), Absent, Frac(4), Frac(30)),
            List(<<G(Frac(12)), G(Frac(12)), G(Frac(12)), G(Frac(12)), G(Frac(12))>>),
            Price(Num(100 * One))),
     Fetched(Acme, EmptyList,
            Ratios(Num(12 * One), Absent, Absent, Frac(40)),
            EmptyList, EmptyObj),
     Fetched(Acme, EmptyList,
            Ratios(Null, Absent, Frac(4), Frac(30)),
            EmptyList, EmptyObj),
     Fetched(Acme, EmptyList,
            Ratios(Num(12 * One), Absent, Null, Frac(30)),
            EmptyList, EmptyObj)}

KeySet(keys) == {keys[j] : j \in 1..Len(keys)}

\* The fetcher's variables once get_stocks_data has returned stocks_data.
FetcherReturned ==
    /\ symbols = stocks_keys
    /\ max_retries = MaxRetries
    /\ known = {}
    /\ pc = "done"
    /\ idx = Len(stocks_keys) + 1
    /\ sub = 0
    /\ attempt = 0
    /\ got = <<>>
    /\ inflight = 0
    /\ tries = 0
    /\ sleeps = 0
    /\ ended = NoRequest
    /\ issued = <<>>
    /\ started = stocks_keys
    /\ response = NoResponse
    /\ paced = Len(stocks_keys)

\* analyze_stocks(stocks_data, top_n), line 257: StockAnalyzer(stocks_data).
InitAnalyze ==
    /\ \E n \in 0..MaxBatch : stocks_keys = SubSeq(BatchSymbols, 1, n)
    /\ \E content \in [KeySet(stocks_keys) ->
                          IF Len(stocks_keys) > 1 THEN BatchRecords ELSE RichRecords] :
          stocks_data = [s \in KeySet(stocks_keys) |-> RecordOf(s, content[s])]
    /\ FetcherReturned
    /\ apc = "metrics"
    /\ mi = 1
    /\ si = 1
    /\ result_keys = <<>>
    /\ results = <<>>
    /\ top_n = 0
    /\ top = <<>>

NextAnalyze ==
    \/ SkipFetchError
    \/ SkipDerivationError
    \/ StoreMetrics
    \/ MetricsDone
    \/ ScoreEntry
    \/ ScoreRaise
    \/ AnalyzeReturn
    \/ \E n \in TopNs : GetTopStocks(n)
    \/ \E n \in TopNs : GetTopStocksKeyError(n)

SpecAnalyze == InitAnalyze /\ [][NextAnalyze]_vars

---------------------------------------------------------------------------
\* StockAnalyzer: analyze() as a function of the batch.

\* _calculate_metrics, lines 36-105, on the items `keys` of `data`, starting
\* from the results (rk, res).
RECURSIVE MetricsLoop(_, _, _, _)
MetricsLoop(keys, data, rk, res) ==
    IF keys = <<>> THEN [keys |-> rk, res |-> res]
    ELSE IF HasError(data[Head(keys)]) \/ DeriveRaises(data[Head(keys)])
        THEN MetricsLoop(Tail(keys), data, rk, res)
        ELSE MetricsLoop(Tail(keys), data, PutKeys(rk, Head(keys)),
                 PutData(res, Head(keys), MetricsEntry(Head(keys), data[Head(keys)])))

\* _calculate_scores, lines 111-131, from item j of the results on.
RECURSIVE ScoresLoop(_, _, _)
ScoresLoop(rk, res, j) ==
    IF j > Len(rk) THEN [res |-> res, raised |-> FALSE]
    ELSE IF ScoreRaises(res[rk[j]]) THEN [res |-> res, raised |-> TRUE]
    ELSE ScoresLoop(rk, [res EXCEPT ![rk[j]] = WithScore(@, ScoreOf(res[rk[j]]))],
                    j + 1)

\* analyze(), lines 140-142: the results it leaves, and whether it raised.
Analyze(keys, data) ==
    LET m == MetricsLoop(keys, data, <<>>, <<>>)
        s == ScoresLoop(m.keys, m.res, 1)
    IN  [keys |-> m.keys, res |-> s.res, raised |-> s.raised]

---------------------------------------------------------------------------
\* Properties of the fetcher.

FullKeys == {"symbol"} \cup {SubKeys[k] : k \in 1..NumSub}
ErrorKeys == {"symbol", "error"}

\* C1 (as stated): when every attempt of a logical request fails, the retries
\* made after the first failed attempt number max_retries, and then the
\* terminal error is raised.
C1_RetriesEqualMaxRetries ==
    ended.outcome = "raised" => ended.tries - 1 = max_retries

\* C2: when a sub-request of get_stock_data(symbol) ends in the terminal
\* error, the sub-requests issued for that symbol are exactly the getters up
\* to the failing one (none after it), and the record returned for the symbol
\* has exactly the keys symbol and error.
C2_FailedSymbolAbandoned ==
    (ended.outcome = "raised" /\ pc \in {"pace", "loop", "done"}) =>
        /\ issued = SubSeq(Endpoints, 1, ended.sub)
        /\ DOMAIN stocks_data[symbols[ended.idx]] = ErrorKeys

\* C2 witness: the third getter of a symbol failed terminally after two
\* getters had returned their data.
C2_Witness ==
    /\ pc = "pace"
    /\ ended.outcome = "raised"
    /\ ended.sub = 3
    /\ Len(got) = 2

C3_Final ==
    /\ DOMAIN stocks_data = {symbols[j] : j \in 1..Len(symbols)}
    /\ \A s \in DOMAIN stocks_data :
          DOMAIN stocks_data[s] \in {FullKeys, ErrorKeys}
    /\ started = symbols

\* C3: get_stocks_data returns, and when it does the mapping has an entry for
\* every input symbol, each a full aggregate record or a {symbol, error}
\* record, and get_stock_data was entered for every symbol of the list in
\* order, whatever happened to the symbols before it.
C3_BatchCompletes ==
    /\ <>(pc = "done")
    /\ [](pc = "done" => C3_Final)

\* C3 witness: a two-symbol batch has returned in which the first symbol
\* failed and the second was fetched in full.
C3_Witness ==
    /\ pc = "done"
    /\ Len(symbols) = 2
    /\ symbols[1] # symbols[2]
    /\ DOMAIN stocks_data[symbols[1]] = ErrorKeys
    /\ DOMAIN stocks_data[symbols[2]] = FullKeys

\* C12: an attempt that gets a successful response ends its logical request:
\* the value returned is the response's JSON body, empty or not, and neither a
\* retry delay nor another attempt of that request follows (the thread is past
\* the request: at the first attempt of the next one, or out of the symbol).
C12_SuccessEndsRequest ==
    response.status = "ok" =>
        /\ ended.outcome = "returned"
        /\ ended.value = response.body
        /\ ended.sleeps = ended.tries - 1
        /\ pc \in {"attempt", "pace", "loop", "done"}
        /\ pc = "attempt" =>
              /\ attempt = 0 /\ tries = 0 /\ sleeps = 0
              /\ \/ idx = ended.idx /\ sub = ended.sub + 1
                 \/ idx = ended.idx + 1 /\ sub = 1

\* C12 witness: the second attempt of a request got a successful response
\* with an empty body, and the next getter of the symbol is about to start.
C12_Witness ==
    /\ response.status = "ok"
    /\ response.body = EmptyList
    /\ ended.tries = 2
    /\ pc = "attempt"
    /\ sub = ended.sub + 1

\* The order of sub-requests that claim C14 names.
C14_RequestOrder ==
    <<"profile", "income-statement", "balance-sheet-statement",
      "key-metrics", "ratios", "financial-growth", "quote">>

C15_DelayBetweenAttempts ==
    /\ pc \in {"await", "retry_sleep"} => sleeps = tries - 1
    /\ pc = "attempt" =>
          /\ sleeps = tries
          /\ tries > 0 => attempt < max_retries
    /\ ended.outcome \in {"returned", "raised"} =>
          /\ ended.tries >= 1
          /\ ended.sleeps = ended.tries - 1
    /\ (ended.outcome = "raised" /\ pc = "pace" /\ ended.idx = idx) =>
          /\ response.status = "failed"
          /\ tries = ended.tries
          /\ sleeps = ended.sleeps

\* A request made three attempts, slept two delays, and raised the terminal
\* error right after the third failure.
C15_Witness ==
    /\ ended.outcome = "raised"
    /\ ended.tries = 3
    /\ ended.sleeps = 2
    /\ pc = "pace"
    /\ ended.idx = idx

\* C16 (as stated): for every max_retries, zero and negative included, a call
\* of _make_api_request ends in exactly one of two ways: it returns the JSON
\* body of a successful response, or it raises the terminal error after a
\* failed attempt; it never returns without a response having been received.
C16_ReturnsBodyOrRaises ==
    ended.outcome # "none" =>
        /\ ended.outcome \in {"returned", "raised"}
        /\ ended.tries >= 1

---------------------------------------------------------------------------
\* Properties of the analyzer.

FailedSymbols == {s \in KeySet(stocks_keys) : "error" \in DOMAIN stocks_data[s]}
AnalyzeEnded == apc \in {"analyzed", "raised", "top_done", "top_raised"}
TopEnded == apc \in {"top_done", "top_raised"}
\* The entries _calculate_scores has scored.
Scored == {result_keys[j] : j \in 1..(si - 1)}
Ind(b) == IF b THEN 1 ELSE 0

\* C4 (as stated): analyze() completes without raising for any batch of
\* aggregate records, null fields included.
C4_AnalyzeNeverRaises == apc # "raised"

\* The batch without its failed symbols, analysed on its own.
SiblingsAlone ==
    LET okKeys == SelectSeq(stocks_keys, LAMBDA s : s \notin FailedSymbols)
    IN  Analyze(okKeys, [s \in KeySet(okKeys) |-> stocks_data[s]])

\* C5: a symbol whose record carries an error is never in the results, the
\* scored set or the output of get_top_stocks, and once analyze() has ended
\* the results are exactly those of the batch without the failed symbols.
C5_FailedSymbolDropped ==
    /\ \A s \in FailedSymbols :
          /\ s \notin DOMAIN results
          /\ s \notin KeySet(result_keys)
          /\ s \notin KeySet(top)
    /\ AnalyzeEnded =>
          /\ result_keys = SiblingsAlone.keys
          /\ results = SiblingsAlone.res
          /\ (apc = "raised") = SiblingsAlone.raised

\* C5 witness: the first symbol of a batch failed and the one after it is in
\* the output of get_top_stocks.
C5_Witness ==
    /\ apc = "top_done"
    /\ Len(stocks_keys) >= 2
    /\ stocks_keys[1] \in FailedSymbols
    /\ stocks_keys[2] \in KeySet(top)

\* C6 (as stated): when no symbol of the batch was fetched successfully,
\* get_top_stocks returns an empty sequence and raises nothing.
C6_EmptyBatchYieldsEmptyRanking ==
    (TopEnded /\ FailedSymbols = KeySet(stocks_keys)) =>
        (apc = "top_done" /\ top = <<>>)

\* C7 (as stated): get_top_stocks(n) returns min(n, count) symbols for n > 0
\* and none for n <= 0, count being the number of scored symbols.
C7_TopLength ==
    apc = "top_done" =>
        Len(top) = IF top_n > 0 THEN Min(top_n, Len(result_keys)) ELSE 0

\* C8 (as stated): two symbols of equal score that both appear in the output
\* of get_top_stocks appear in the order they have in the results.
C8_StableOrder ==
    apc = "top_done" =>
        \A a, b \in 1..Len(top) :
            (a < b /\ results[top[a]].score = results[top[b]].score) =>
                IndexOf(result_keys, top[a]) < IndexOf(result_keys, top[b])

\* C9 (as stated): every entry of the results has the twelve keys, and each
\* numeric metric holds a number, a missing source value being stored as 0.
C9_TotalNumericEntries ==
    \A s \in DOMAIN results :
        /\ DOMAIN results[s] = MetricKeys
        /\ \A key \in NumericKeys : results[s][key].k = "num"

GrowthEntries(s) ==
    IF stocks_data[s].growth.k = "list" THEN stocks_data[s].growth.items ELSE <<>>
GrowthOf(s, j) ==
    IF "revenueGrowth" \in DOMAIN GrowthEntries(s)[j].fields
        THEN GrowthEntries(s)[j].fields.revenueGrowth
        ELSE Num(0)
\* Sum of the revenue growth of the entries of s numbered in `js`.
RECURSIVE GrowthSum(_, _)
GrowthSum(s, js) ==
    IF js = {} THEN 0
    ELSE LET j == CHOOSE x \in js : TRUE
         IN  GrowthOf(s, j).n + GrowthSum(s, js \ {j})

\* C11: revenue_growth_5y is 0 when the growth sequence has fewer than 5
\* entries or the first 5 revenue-growth values are all null; otherwise it is
\* 100 times the mean of the non-null values among the first 5 entries (nulls
\* dropped, not counted as 0; entries after the fifth ignored).
C11_RevenueGrowthMean ==
    \A s \in DOMAIN results :
        LET kept == IF Len(GrowthEntries(s)) < 5 THEN {}
                    ELSE {j \in 1..5 : GrowthOf(s, j).k # "null"}
            metric == results[s].revenue_growth_5y
        IN  /\ metric.k = "num"
            /\ kept = {} => metric.n = 0
            /\ kept # {} =>
                  metric.n * Cardinality(kept) = 100 * GrowthSum(s, kept)

\* C11 witness: a symbol whose first five growth entries hold a null among
\* numbers has the metric 10, the mean of the four numbers and not of five.
C11_Witness ==
    \E s \in DOMAIN results :
        /\ Len(GrowthEntries(s)) >= 5
        /\ \E j \in 1..5 : GrowthOf(s, j).k = "null"
        /\ \E j \in 1..5 : GrowthOf(s, j).k = "num" /\ GrowthOf(s, j).n = 20 * Cent
        /\ results[s].revenue_growth_5y.n = 10 * One

\* The rows get_top_stocks returned are in descending order of score, and no
\* scored symbol left out of them has a higher score than one of them.
C13_OrderedWhenReturned ==
    apc = "top_done" =>
        /\ \A a \in 1..(Len(top) - 1) :
              results[top[a]].score.n >= results[top[a + 1]].score.n
        /\ \A out \in KeySet(result_keys) \ KeySet(top) :
              \A a \in 1..Len(top) :
                  results[out].score.n <= results[top[a]].score.n

\* C13 (as stated): the output of get_top_stocks is in descending order of
\* score, no scored symbol left out has a strictly higher score than a
\* returned one, and for n > count the output is the whole scored set.
C13_TopIsDescending ==
    TopEnded =>
        /\ C13_OrderedWhenReturned
        /\ top_n > Len(result_keys) =>
              /\ apc = "top_done"
              /\ Len(top) = Len(result_keys)
              /\ KeySet(top) = KeySet(result_keys)

=============================================================================
